---- MODULE Spec2Model ----
(***************************************************************************)
(* Variational inference on hidden states: update_posterior_states,        *)
(* run_FPI and run_FPI_faster of inferactively/core/inference.py; and the  *)
(* SocialInteraction environment of pymdp/envs/social_interaction.py.      *)
(*                                                                         *)
(* Numbers: numpy float64 values are modelled in fixed point, an integer n *)
(* standing for n / Scale.  Log and Exp are series approximations with an  *)
(* error of about one unit.  Factors, axes and vector positions are        *)
(* numbered from 0 as in the source; a vector is a function on 0..n-1, a   *)
(* tensor a function on index tuples (functions from axes to positions).   *)
(***************************************************************************)
EXTENDS Integers, Sequences, FiniteSets, TLC

(***************************************************************************)
(* Fixed-point arithmetic                                                  *)
(***************************************************************************)
Scale == 10 * 10 * 10

\* ln 2 in fixed point
Ln2 == (693 * Scale) \div 1000

\* log(0 + 1e-16) in fixed point: np.log(x + 1e-16) at x = 0
LogFloor == (0 - 36841 * Scale) \div 1000

Range0(n) == 0 .. (n - 1)

Abs(x) == IF x < 0 THEN 0 - x ELSE x

\* a / b rounded to the nearest integer, b > 0
RoundDiv(a, b) == (2 * a + b) \div (2 * b)

\* x * y of two fixed-point numbers
Mul(x, y) == RoundDiv(x * y, Scale)

RECURSIVE Pow2(_)
Pow2(k) == IF k = 0 THEN 1 ELSE 2 * Pow2(k - 1)

\* exp(x) for x <= 0
Exp(x) ==
  LET y  == 0 - x
      k  == y \div Ln2
      r  == y % Ln2
      t2 == RoundDiv(r * r, 2 * Scale)
      t3 == RoundDiv(t2 * r, 3 * Scale)
      t4 == RoundDiv(t3 * r, 4 * Scale)
      m  == Scale - r + t2 - t3 + t4
  IN  IF k > 20 THEN 0 ELSE RoundDiv(m, Pow2(k))

\* ln(m) for Scale <= m < 2 * Scale
LnMant(m) ==
  LET t  == RoundDiv((m - Scale) * Scale, m + Scale)
      t2 == Mul(t, t)
      t3 == Mul(t2, t)
      t5 == Mul(t3, t2)
  IN  2 * (t + RoundDiv(t3, 3) + RoundDiv(t5, 5))

RECURSIVE Ln(_)
Ln(p) ==
  IF p >= 2 * Scale THEN Ln(RoundDiv(p, 2)) + Ln2
  ELSE IF p >= Scale THEN LnMant(p)
  ELSE Ln(2 * p) - Ln2

\* np.log(p + 1e-16) for p >= 0
LogEps(p) == IF p <= 0 THEN LogFloor ELSE Ln(p)

\* 1.0 / q; a q below the resolution is taken at the resolution
Recip(q) == IF q <= 0 THEN Scale * Scale ELSE RoundDiv(Scale * Scale, q)

(***************************************************************************)
(* Vectors and tensors                                                     *)
(***************************************************************************)
Len0(v) == Cardinality(DOMAIN v)

RECURSIVE SumSet(_, _)
\* the sum of t[i] over i in S
SumSet(S, t) ==
  IF S = {} THEN 0
  ELSE LET i == CHOOSE j \in S : TRUE IN t[i] + SumSet(S \ {i}, t)

SumVec(v) == SumSet(DOMAIN v, v)

RECURSIVE MaxSet(_, _)
MaxSet(S, t) ==
  LET i == CHOOSE j \in S : TRUE
  IN  IF S = {i} THEN t[i]
      ELSE LET m == MaxSet(S \ {i}, t) IN IF t[i] > m THEN t[i] ELSE m

\* a . b of two vectors of one length
Dot(a, b) == SumVec([i \in DOMAIN a |-> Mul(a[i], b[i])])

\* the index tuples over the axes D of a tensor with the cardinalities card
Idx(D, card) ==
  IF D = {} THEN {<<>>}
  ELSE LET m == MaxSet(D, card)
       IN  {i \in [D -> Range0(m)] : \A d \in D : i[d] < card[d]}

\* the index tuple i with axis d set to position j
With(i, d, j) == [a \in (DOMAIN i) \cup {d} |-> IF a = d THEN j ELSE i[a]]

\* the tensor T over the axes D with axis d summed out, weighted by the vector x
Contract(T, D, d, x, card) ==
  [i \in Idx(D \ {d}, card) |->
     SumVec([j \in Range0(card[d]) |-> Mul(T[With(i, d, j)], x[j])])]

RECURSIVE ContractDims(_, _, _, _, _)
\* the axes dims of T summed out one at a time, in ascending order
ContractDims(T, D, dims, x, card) ==
  IF dims = {} THEN T
  ELSE LET d == CHOOSE a \in dims : \A b \in dims : a <= b
       IN  ContractDims(Contract(T, D, d, x[d], card), D \ {d}, dims \ {d}, x, card)

\* spm_dot(L, qx, [f]): every axis but f summed out against the beliefs qx
spm_dot_omit(T, x, f, card) ==
  LET D == DOMAIN card
      R == ContractDims(T, D, D \ {f}, x, card)
  IN  [j \in Range0(card[f]) |-> R[With(<<>>, f, j)]]

\* spm_dot(L, qx)[0]: every axis summed out
spm_dot_all(T, x, card) ==
  LET D == DOMAIN card IN ContractDims(T, D, D, x, card)[<<>>]

\* spm_dot(A, obs, obs_mode=True): the outcome axis of the likelihood array A
\* contracted against the observation vector, a tensor over the factors
spm_dot_obs(A, obs, card) ==
  LET D == DOMAIN card
  IN  [i \in Idx(D, card) |->
         SumVec([o \in DOMAIN obs |->
            Mul(A.data[[a \in Range0(Len(A.shape)) |->
                          IF a = 0 THEN o ELSE i[a - 1]]], obs[o])])]

\* softmax(v), v not empty: shift by the maximum, exponentiate, normalise
softmax(v) ==
  LET m == MaxSet(DOMAIN v, v)
      e == [i \in DOMAIN v |-> Exp(v[i] - m)]
      s == SumVec(e)
  IN  [i \in DOMAIN v |-> RoundDiv(e[i] * Scale, s)]

VecAdd(a, b) == [i \in DOMAIN a |-> a[i] + b[i]]

(***************************************************************************)
(* Values the caller passes: numpy arrays and Categorical wrappers         *)
(***************************************************************************)
\* a float ndarray: its shape and its data, a tensor indexed by index tuples
Indices(shape) ==
  LET D == Range0(Len(shape)) IN Idx(D, [a \in D |-> shape[a + 1]])
Tensor(shape, data) == [dtype |-> "float", shape |-> shape, data |-> data]

\* a float ndarray holding a vector: shape (n,) or, inside a Categorical, (n, 1);
\* data is the buffer, indexed by position
Vector(v) == [dtype |-> "float", shape |-> <<Len0(v)>>, data |-> v]
Column(v) == [dtype |-> "float", shape |-> <<Len0(v), 1>>, data |-> v]

\* ndarray.squeeze(): the axes of length 1 dropped, the buffer shared
squeeze(a) == [a EXCEPT !.shape = SelectSeq(@, LAMBDA n : n # 1)]

\* an ndarray of dtype object; a slot np.empty left unset holds None
ObjectArray(items) == [dtype |-> "object", items |-> items]
None == [dtype |-> "None"]

\* the tuple <<e1, ..., en>> as a function on 0..n-1
Zero(seq) == [i \in Range0(Len(seq)) |-> seq[i + 1]]

\* np.eye(n)[o]
OneHot(n, o) == [i \in Range0(n) |-> IF i = o THEN Scale ELSE 0]

Array(a) == [kind |-> "array", values |-> a]
Categorical(a) == [kind |-> "Categorical", values |-> a]
IntObs(o) == [kind |-> "int", values |-> o]
TupleObs(os) == [kind |-> "tuple", values |-> os]

\* Categorical.IS_AOA
IS_AOA(c) == c.values.dtype = "object"

(***************************************************************************)
(* update_posterior_states: shape inference and input normalisation        *)
(***************************************************************************)
\* A after lines 54-55
Unwrap(A) == A.values

\* Ns and No of lines 57-68, from the shape of A alone
InferNs(A) ==
  LET sh == IF A.dtype = "object" THEN A.items[0].shape ELSE A.shape
  IN  [f \in Range0(Len(sh) - 1) |-> sh[f + 2]]

InferNo(A) ==
  IF A.dtype = "object"
  THEN [g \in DOMAIN A.items |-> A.items[g].shape[1]]
  ELSE (0 :> A.shape[1])

\* the observation handed to the solver (lines 70-86): one one-hot vector when
\* Ng = 1, else one per modality
NormalObservation(observation, No) ==
  LET Ng == Len0(No)
  IN  CASE observation.kind = "Categorical" ->
             IF Ng = 1 THEN squeeze(observation.values).data
             ELSE [g \in Range0(Ng) |-> squeeze(observation.values.items[g]).data]
        [] observation.kind = "int" -> OneHot(No[0], observation.values)
        [] observation.kind = "tuple" ->
             [g \in Range0(Ng) |-> OneHot(No[g], observation.values[g + 1])]
        [] OTHER ->
             IF observation.values.dtype = "object"
             THEN [g \in DOMAIN observation.values.items |->
                     observation.values.items[g].data]
             ELSE observation.values.data

\* the caller's observation object after lines 70-76: with several modalities,
\* line 76 stores each squeezed array back into the Categorical's own values
ObservationAfter(observation, No) ==
  LET Ng == Len0(No)
  IN  IF observation.kind = "Categorical" /\ Ng # 1
      THEN [observation EXCEPT
              !.values.items = [g \in DOMAIN @ |-> IF g < Ng THEN squeeze(@[g]) ELSE @[g]]]
      ELSE observation

\* prior[f] raises IndexError at line 92 when the Categorical holds fewer than Nf
PriorIndexError(prior, Nf) ==
  /\ prior.kind = "Categorical"
  /\ IS_AOA(prior)
  /\ Nf > Len0(prior.values.items)

\* the prior handed to the solver (lines 88-101): an object array of vectors
NormalPrior(prior, Nf) ==
  IF prior.kind = "Categorical"
  THEN IF IS_AOA(prior)
       THEN ObjectArray([f \in Range0(Nf) |-> squeeze(prior.values.items[f])])
       ELSE ObjectArray([f \in Range0(Nf) |->
                           IF f = 0 THEN squeeze(prior.values) ELSE None])
  ELSE IF prior.values.dtype # "object"
       THEN ObjectArray([f \in Range0(Nf) |-> IF f = 0 THEN prior.values ELSE None])
       ELSE prior.values

(***************************************************************************)
(* run_FPI, run_FPI_faster: what precedes the iteration (lines 149-186)    *)
(***************************************************************************)
RECURSIVE JointProduct(_, _, _, _, _)
\* L after lines 152-160 over the modalities g..Ng-1, L being ones before g = 0
JointProduct(A, observation, g, Ng, Ns) ==
  LET D == DOMAIN Ns
      ones == [i \in Idx(D, Ns) |-> Scale]
  IN  IF g = Ng THEN ones
      ELSE LET rest == JointProduct(A, observation, g + 1, Ng, Ns)
               lik  == spm_dot_obs(A.items[g], observation[g], Ns)
           IN  [i \in Idx(D, Ns) |-> Mul(rest[i], lik[i])]

\* L of line 162
JointLogLikelihood(A, observation, No, Ns) ==
  LET D == DOMAIN Ns
      joint == IF Len0(No) = 1
               THEN spm_dot_obs(A, observation, Ns)
               ELSE JointProduct(A, observation, 0, Len0(No), Ns)
  IN  [i \in Idx(D, Ns) |-> LogEps(joint[i])]

\* qx of lines 165-167; np.ones(0) / 0 is the empty vector
UniformQx(Ns) ==
  [f \in DOMAIN Ns |-> [j \in Range0(Ns[f]) |-> RoundDiv(Scale, Ns[f])]]

\* -qx[f].dot(log(qx[f] + 1e-16)) - qx[f].dot(prior[f])
EntropyTerms(q, p) == (0 - Dot(q, [j \in DOMAIN q |-> LogEps(q[j])])) - Dot(q, p)

\* the sum over the factors of lines 183-186, and of 230-233
SumEntropyTerms(qx, prior) ==
  SumVec([f \in DOMAIN qx |-> EntropyTerms(qx[f], prior.items[f].data)])

\* what lines 183-186 raise: prior[f] past the end of prior, prior[f] None, or a
\* prior[f] whose length is not Ns[f]; "" when they raise nothing
RECURSIVE InitError(_, _, _)
InitError(prior, Ns, f) ==
  IF f = Len0(Ns) THEN ""
  ELSE IF f \notin DOMAIN prior.items THEN "IndexError"
  ELSE IF prior.items[f].dtype = "None" THEN "TypeError"
  ELSE IF Len0(prior.items[f].data) # Ns[f] THEN "ValueError"
  ELSE InitError(prior, Ns, f + 1)

(***************************************************************************)
(* The posterior updates                                                   *)
(***************************************************************************)
\* qL of line 212: L marginalised over every factor but f, weighted by the
\* beliefs qx hold now
RecursiveMarginal(L, qx, f, Ns) == spm_dot_omit(L, qx, f, Ns)

RECURSIVE JointX(_, _, _)
\* X of lines 342-348: a copy of L with qx[f] multiplied in along axis f, for f
\* in factor_order
JointX(X, qx, factor_order) ==
  IF factor_order = <<>> THEN X
  ELSE LET f == Head(factor_order)
       IN  JointX([i \in DOMAIN X |-> Mul(X[i], qx[f][i[f]])], qx, Tail(factor_order))

\* X after the update of factor f (lines 351-360): temp is a new array, X is
\* not written
XAfterUpdateInPlace(X, qxf, f) == [i \in DOMAIN X |-> Mul(X[i], Recip(qxf[i[f]]))]
XAfterUpdate(X, qxf, f) == X

\* qL of lines 354-358: qx[f] divided out of X, every axis but f summed
JointMarginal(X, qxf, f, Ns) ==
  LET temp == [i \in DOMAIN X |-> Mul(X[i], Recip(qxf[i[f]]))]
  IN  [j \in Range0(Ns[f]) |->
         SumSet({i \in DOMAIN X : i[f] = j}, temp)]

\* softmax of an empty vector has no maximum to shift by
SoftmaxRaises(v) == DOMAIN v = {}

\* F of lines 230-236 and 366-375
FreeEnergy(L, qx, prior, Ns) == SumEntropyTerms(qx, prior) - spm_dot_all(L, qx, Ns)

\* F_prev of lines 182-186 and 318-322
InitialFreeEnergy(L, qx, prior, Ns) == SumEntropyTerms(qx, prior)

\* factor_order of lines 203-206
RECURSIVE Ascending(_, _)
Ascending(a, n) == IF a >= n THEN <<>> ELSE <<a>> \o Ascending(a + 1, n)
RECURSIVE Descending(_)
Descending(n) == IF n <= 0 THEN <<>> ELSE <<n - 1>> \o Descending(n - 1)
SecondPassAscending(f_loop_, Nf) == Ascending(0, Nf)
FactorOrder(f_loop_, Nf) == IF f_loop_ = 0 THEN Ascending(0, Nf) ELSE Descending(Nf)

\* lines 188 and 325: one factor needs no iteration
NeverTrivial(Nf) == FALSE
IsTrivial(Nf) == Nf = 1

\* lines 247 and 383
NeverConverged(dF_, dF_tol) == FALSE
Converged(dF_, dF_tol) == dF_ < dF_tol

(***************************************************************************)
(* update_posterior_states: the dispatch of lines 103-114                  *)
(***************************************************************************)
Unimplemented == {"VMP", "MMP", "BP", "EP", "CV"}

\* line 103
RunsFPIAlways(method) == TRUE
RunsFPI(method) == method = "FPI"

\* lines 105-114
RaisesNothing(method) == FALSE
Raises(method) == method \in Unimplemented

(***************************************************************************)
(* The calls explored                                                      *)
(***************************************************************************)
\* the largest num_iter a caller passes, besides the default
MaxIter == 3

\* num_iter=10 and dF_tol=0.001 of lines 122 and 257
num_iter_default == 10
dF_tol_default == Scale \div 1000

NumIters == (0 .. MaxIter) \cup {num_iter_default}
Tolerances == {0, dF_tol_default, Scale \div 5, 2 * Scale}
Methods == {"FPI"} \cup Unimplemented \cup {"fpi"}

\* one factor, one modality: the likelihood [[0.9, 0.1], [0.1, 0.9]]
ASingle == Tensor(<<2, 2>>, [t \in Indices(<<2, 2>>) |-> IF t[0] = t[1] THEN 900 ELSE 100])
\* two factors of 2 and 3 states, one modality of 2 outcomes
AJoint ==
  Tensor(<<2, 2, 3>>,
         [t \in Indices(<<2, 2, 3>>) |->
            IF t[0] = 0 THEN 900 - 300 * t[1] - 200 * t[2]
            ELSE 100 + 300 * t[1] + 200 * t[2]])
\* a second modality of 3 outcomes over the same factors
BJoint ==
  Tensor(<<3, 2, 3>>,
         [t \in Indices(<<3, 2, 3>>) |->
            CASE t[0] = 0 -> 200 + 100 * t[1]
              [] t[0] = 1 -> 200 + 100 * t[2]
              [] OTHER -> 600 - 100 * t[1] - 100 * t[2]])
AMulti == ObjectArray(Zero(<<AJoint, BJoint>>))
\* three factors of 2 states
ATriple ==
  Tensor(<<2, 2, 2, 2>>,
         [t \in Indices(<<2, 2, 2, 2>>) |->
            IF t[0] = 0 THEN 800 - 300 * t[1] - 200 * t[2] - 100 * t[3]
            ELSE 200 + 300 * t[1] + 200 * t[2] + 100 * t[3]])
\* a factor of cardinality zero
AZero == Tensor(<<2, 2, 0>>, [t \in Indices(<<2, 2, 0>>) |-> 500])

\* the observations a caller may pass for the outcome cardinalities No
ObservationsFor(No) ==
  IF Len0(No) = 1
  THEN { IntObs(0), IntObs(1),
         Array(Vector(OneHot(No[0], 0))),
         Categorical(Column(OneHot(No[0], 1))) }
  ELSE { TupleObs([g \in 1 .. Len0(No) |-> g - 1]),
         Array(ObjectArray([g \in DOMAIN No |-> Vector(OneHot(No[g], 0))])),
         Categorical(ObjectArray([g \in DOMAIN No |-> Column(OneHot(No[g], g))])) }

\* a log-prior over n states, falling by k per state
LogPrior(n, k) == [j \in Range0(n) |-> 0 - k * j]

\* the priors that agree with Ns
PriorsFor(Ns) ==
  { Array(ObjectArray([f \in DOMAIN Ns |-> Vector(LogPrior(Ns[f], 0))])),
    Array(ObjectArray([f \in DOMAIN Ns |-> Vector(LogPrior(Ns[f], 400 * (f + 1)))])),
    Categorical(ObjectArray([f \in DOMAIN Ns |-> Column(UniformQx(Ns)[f])])) }
  \cup (IF Len0(Ns) = 1
        THEN { Array(Vector(LogPrior(Ns[0], 0))), Categorical(Column(UniformQx(Ns)[0])) }
        ELSE {})

\* the priors that disagree with Ns: a vector too many, a vector too few, a
\* vector too long, a single vector for several factors
BadPriorsFor(Ns) ==
  LET Nf == Len0(Ns)
      n(f) == IF f < Nf THEN Ns[f] ELSE 2
  IN  { Array(ObjectArray([f \in Range0(Nf + 1) |-> Vector(LogPrior(n(f), 0))])),
        Categorical(ObjectArray([f \in Range0(Nf + 1) |-> Column(LogPrior(n(f), 0))])),
        Array(ObjectArray([f \in Range0(Nf - 1) |-> Vector(LogPrior(Ns[f], 0))])),
        Categorical(ObjectArray([f \in Range0(Nf - 1) |-> Column(LogPrior(Ns[f], 0))])),
        Array(ObjectArray([f \in DOMAIN Ns |->
                             Vector(LogPrior(Ns[f] + (IF f = Nf - 1 THEN 1 ELSE 0), 0))])) }
      \cup (IF Nf > 1 THEN {Array(Vector(LogPrior(Ns[0], 0)))} ELSE {})

Likelihoods == {Array(ASingle), Categorical(ASingle), Array(AJoint), Array(AMulti),
                Array(ATriple), Array(AZero)}

Call(A, observation, prior, method, return_numpy, num_iter, dF_tol) ==
  [A |-> A, observation |-> observation, prior |-> prior, method |-> method,
   return_numpy |-> return_numpy, num_iter |-> num_iter, dF_tol |-> dF_tol]

FirstObservation(A) ==
  LET No == InferNo(Unwrap(A))
  IN  IF Len0(No) = 1 THEN IntObs(0) ELSE TupleObs([g \in 1 .. Len0(No) |-> g - 1])

FlatPrior(A) ==
  LET Ns == InferNs(Unwrap(A))
  IN  Array(ObjectArray([f \in DOMAIN Ns |-> Vector(LogPrior(Ns[f], 0))]))

\* every iteration cap and tolerance, on well-formed inputs
IterationCalls ==
  UNION { { Call(A, FirstObservation(A), p, "FPI", TRUE, n, t) :
              p \in {q \in PriorsFor(InferNs(Unwrap(A))) :
                       q.kind = "array" /\ q.values.dtype = "object"},
              n \in NumIters, t \in Tolerances }
          : A \in {Array(ASingle), Array(AJoint), Array(AMulti), Array(ATriple)} }

\* every accepted shape of observation and prior, and the priors that disagree
\* with Ns
ShapeCalls ==
  UNION { { Call(A, o, p, "FPI", TRUE, 1, dF_tol_default) :
              o \in ObservationsFor(InferNo(Unwrap(A))),
              p \in PriorsFor(InferNs(Unwrap(A))) \cup BadPriorsFor(InferNs(Unwrap(A))) }
          : A \in Likelihoods }

\* every method name, raw and wrapped results, on well-formed inputs and on a
\* Categorical prior that holds a vector too few
MethodCalls ==
  UNION { { Call(A, FirstObservation(A), p, m, r, 2, dF_tol_default) :
              p \in {FlatPrior(A),
                     Categorical(ObjectArray([f \in Range0(Len0(InferNs(Unwrap(A))) - 1) |->
                                                Column(LogPrior(2, 0))]))},
              m \in Methods, r \in BOOLEAN }
          : A \in {Array(ASingle), Array(AMulti)} }

Calls == IterationCalls \cup ShapeCalls \cup MethodCalls

\* run_FPI_faster is called with the inputs already in the solver's shape
FasterCalls ==
  { c \in Calls :
      /\ c.method = "FPI" /\ c.return_numpy
      /\ c.A.kind = "array"
      /\ c.observation = FirstObservation(c.A)
      /\ c.prior.kind = "array" /\ c.prior.values.dtype = "object" }

\* the calls of a caller that compares the results of two calls
PairCalls ==
  { c \in IterationCalls :
      /\ c.A \in {Array(ASingle), Array(AJoint)}
      /\ c.prior = FlatPrior(c.A) }

(***************************************************************************)
(* State                                                                   *)
(***************************************************************************)
VARIABLES
  pc,        \* where the call stands: "idle", "entered" (line 188 / 325),
             \* "while" (195 / 332), "pass" (202 / 336), "update" (207 / 349),
             \* "energy" (230 / 366), "return" (the solver has returned),
             \* "done", "raised"
  entry,     \* the function the caller called
  args,      \* the arguments of the call, as passed
  heap,      \* the caller's A, observation and prior objects, as they are now
  last,      \* what the caller kept of an earlier call
  Ns, prior, L, qx, F_prev, F, dF, iter_i, f_loop, order, X,   \* the solver's locals
  out,       \* what the solver returned
  ret,       \* what the caller got back
  err,       \* the exception that ended the call
  nUpdates,  \* history: posterior updates (softmax assignments) in this call
  iters,     \* history: full iterations completed in this call
  visited,   \* history: the factors updated in the current iteration, in order
  dFs,       \* history: dF of each completed iteration
  qxPass,    \* history: qx at the start of the current pass
  exitPath,  \* history: how the solver left: "trivial", "converged", "exhausted"
  user_states, post_states, rewards,   \* the SocialInteraction object's arrays
  env_call,  \* the last call made on the environment, with its arguments
  env_ret,   \* what that call returned
  env_err,   \* the exception that ended it
  env_steps  \* history: calls of step since the last reset

locals == <<Ns, prior, L, qx, F_prev, F, dF, iter_i, f_loop, order, X>>
history == <<nUpdates, iters, visited, dFs, qxPass, exitPath>>
solver == <<pc, entry, args, heap, last, locals, out, ret, err, history>>
env == <<user_states, post_states, rewards, env_call, env_ret, env_err, env_steps>>
vars == <<solver, env>>

NoValue == [kind |-> "none"]
NoCall == [entry |-> "none"]

Strategy == IF entry = "update_posterior_states" THEN "run_FPI" ELSE entry
Nf == Len0(Ns)

(***************************************************************************)
(* SocialInteraction of pymdp/envs/social_interaction.py: the object's     *)
(* arrays.  The float64 entries are in fixed point as above.               *)
(***************************************************************************)
\* the sizes the environment is constructed with
num_users == 2
num_posts == 2

\* self.actions
actions == <<"FOLLOW", "LIKE", "COMMENT", "SHARE">>

\* np.zeros(n) and np.zeros((n, m))
zeros(n) == [i \in Range0(n) |-> 0]
zeros2(n, m) == [k \in Range0(n) \X Range0(m) |-> 0]

\* the position an integer index i names on an axis of length n: negative
\* indices count from the end; OutOfBounds when numpy raises IndexError
OutOfBounds == 0 - 1
ArrayIndex(i, n) ==
  IF 0 <= i /\ i < n THEN i
  ELSE IF 0 - n <= i /\ i < 0 THEN n + i
  ELSE OutOfBounds

\* the state after __init__, which ends in reset()
EnvInit ==
  /\ user_states = zeros(num_users)
  /\ post_states = zeros(num_posts)
  /\ rewards = zeros2(num_users, num_posts)
  /\ env_call = [op |-> "__init__"]
  /\ env_ret = NoValue /\ env_err = "" /\ env_steps = 0

Init ==
  /\ EnvInit
  /\ pc = "idle" /\ entry = "none" /\ args = NoCall /\ heap = NoCall /\ last = NoCall
  /\ Ns = <<>> /\ prior = None /\ L = <<>> /\ qx = <<>> /\ F_prev = 0 /\ F = 0 /\ dF = 0
  /\ iter_i = 0 /\ f_loop = 0 /\ order = <<>> /\ X = <<>>
  /\ out = NoValue /\ ret = NoValue /\ err = ""
  /\ nUpdates = 0 /\ iters = 0 /\ visited = <<>> /\ dFs = <<>> /\ qxPass = <<>>
  /\ exitPath = ""

\* the activation record is gone
DropLocals ==
  /\ Ns' = <<>> /\ prior' = None /\ L' = <<>> /\ qx' = <<>> /\ F_prev' = 0 /\ F' = 0 /\ dF' = 0
  /\ iter_i' = 0 /\ f_loop' = 0 /\ order' = <<>> /\ X' = <<>>

Raise(e) == pc' = "raised" /\ err' = e /\ DropLocals

\* lines 149-186 and 297-322 of the solver called with (A, observation, prior, No, Ns)
EnterSolver(A, observation, prior_, No, Ns_) ==
  LET e == InitError(prior_, Ns_, 0)
      L_ == JointLogLikelihood(A, observation, No, Ns_)
      qx_ == UniformQx(Ns_)
  IN  IF e # ""
      THEN Raise(e)
      ELSE /\ pc' = "entered" /\ err' = ""
           /\ Ns' = Ns_ /\ prior' = prior_ /\ L' = L_ /\ qx' = qx_
           /\ F_prev' = InitialFreeEnergy(L_, qx_, prior_, Ns_)
           /\ UNCHANGED <<F, dF, iter_i, f_loop, order, X>>

NewHistory ==
  /\ nUpdates' = 0 /\ iters' = 0 /\ visited' = <<>> /\ dFs' = <<>> /\ qxPass' = <<>>
  /\ exitPath' = ""

\* what the solver returns: qx[0] when Nf = 1 (lines 191, 328), else qx (254, 388)
Single(qx_) == Vector(qx_[0])
Collection(qx_) == ObjectArray([f \in DOMAIN qx_ |-> Vector(qx_[f])])

(***************************************************************************)
(* update_posterior_states(A, observation, prior, return_numpy, method,    *)
(* **kwargs), lines 54-114 up to the call of the solver                    *)
(***************************************************************************)
UpdatePosteriorStates(c) ==
  LET A == Unwrap(c.A)
      Ns_ == InferNs(A)
      No == InferNo(A)
  IN  /\ pc = "idle"
      /\ entry' = "update_posterior_states"
      /\ args' = c
      /\ heap' = [A |-> c.A, observation |-> ObservationAfter(c.observation, No),
                  prior |-> c.prior]
      /\ NewHistory
      /\ out' = NoValue /\ ret' = NoValue
      /\ IF PriorIndexError(c.prior, Len0(Ns_))
         THEN Raise("IndexError")
         ELSE IF RunsFPI(c.method)
         THEN EnterSolver(A, NormalObservation(c.observation, No),
                          NormalPrior(c.prior, Len0(Ns_)), No, Ns_)
         ELSE IF Raises(c.method)
         THEN Raise("NotImplementedError")
         ELSE Raise("UnboundLocalError")   \* line 117 / 119 reads qx, never bound
      /\ UNCHANGED <<last, env>>

(***************************************************************************)
(* run_FPI_faster(A, observation, prior, No, Ns, num_iter, dF_tol) called  *)
(* by the caller itself, lines 297-322                                     *)
(***************************************************************************)
RunFPIFaster(c) ==
  LET A == Unwrap(c.A)
      Ns_ == InferNs(A)
      No == InferNo(A)
      observation == NormalObservation(c.observation, No)
      prior_ == NormalPrior(c.prior, Len0(Ns_))
  IN  /\ pc = "idle"
      /\ entry' = "run_FPI_faster"
      /\ args' = [A |-> A, observation |-> observation, prior |-> prior_, No |-> No,
                  Ns |-> Ns_, num_iter |-> c.num_iter, dF_tol |-> c.dF_tol]
      /\ heap' = [A |-> A, observation |-> observation, prior |-> prior_]
      /\ NewHistory
      /\ out' = NoValue /\ ret' = NoValue
      /\ EnterSolver(A, observation, prior_, No, Ns_)
      /\ UNCHANGED <<last, env>>

(***************************************************************************)
(* The solver past line 186 / 322                                          *)
(***************************************************************************)
\* lines 188-191 and 325-328
TrivialCase ==
  /\ pc = "entered"
  /\ IsTrivial(Nf)
  /\ LET qL == spm_dot_omit(L, qx, 0, Ns)
     IN  IF SoftmaxRaises(qL)
         THEN /\ Raise("ValueError")
              /\ UNCHANGED <<out, nUpdates, exitPath>>
         ELSE /\ qx' = [qx EXCEPT ![0] = softmax(VecAdd(qL, prior.items[0].data))]
              /\ out' = Single(qx')
              /\ pc' = "return"
              /\ nUpdates' = nUpdates + 1
              /\ exitPath' = "trivial"
              /\ UNCHANGED <<Ns, prior, L, F_prev, F, dF, iter_i, f_loop, order, X, err>>
  /\ UNCHANGED <<env, entry, args, heap, last, ret, iters, visited, dFs, qxPass>>

\* lines 193-194 and 330-331
EnterLoop ==
  /\ pc = "entered"
  /\ ~IsTrivial(Nf)
  /\ iter_i' = 0
  /\ pc' = "while"
  /\ UNCHANGED <<env, entry, args, heap, last, Ns, prior, L, qx, F_prev, F, dF, f_loop,
                 order, X, out, ret, err, history>>

\* lines 195-197 and 332-334; the loop left, lines 254 and 388
WhileTest ==
  /\ pc = "while"
  /\ IF iter_i < args.num_iter
     THEN /\ pc' = "pass"
          /\ F' = 0
          /\ f_loop' = 0
          /\ visited' = <<>>
          /\ UNCHANGED <<out, exitPath>>
     ELSE /\ pc' = "return"
          /\ out' = Collection(qx)
          /\ exitPath' = "exhausted"
          /\ UNCHANGED <<F, f_loop, visited>>
  /\ UNCHANGED <<env, entry, args, heap, last, Ns, prior, L, qx, F_prev, dF, iter_i, order,
                 X, ret, err, nUpdates, iters, dFs, qxPass>>

\* lines 202-206; in run_FPI_faster also lines 342-348
PassStart ==
  /\ pc = "pass"
  /\ order' = FactorOrder(f_loop, Nf)
  /\ X' = IF Strategy = "run_FPI_faster" THEN JointX(L, qx, order') ELSE X
  /\ qxPass' = qx
  /\ pc' = "update"
  /\ UNCHANGED <<env, entry, args, heap, last, Ns, prior, L, qx, F_prev, F, dF, iter_i,
                 f_loop, out, ret, err, nUpdates, iters, visited, dFs, exitPath>>

\* one turn of the loop of lines 207-214, or of lines 349-360
UpdateFactor ==
  /\ pc = "update"
  /\ order # <<>>
  /\ LET f == Head(order)
         qL == IF Strategy = "run_FPI_faster"
               THEN JointMarginal(X, qx[f], f, Ns)
               ELSE RecursiveMarginal(L, qx, f, Ns)
     IN  IF SoftmaxRaises(qL)
         THEN /\ Raise("ValueError")
              /\ UNCHANGED <<nUpdates, visited>>
         ELSE /\ qx' = [qx EXCEPT ![f] = softmax(VecAdd(qL, prior.items[f].data))]
              /\ X' = IF Strategy = "run_FPI_faster" THEN XAfterUpdate(X, qx[f], f) ELSE X
              /\ order' = Tail(order)
              /\ nUpdates' = nUpdates + 1
              /\ visited' = Append(visited, f)
              /\ UNCHANGED <<pc, Ns, prior, L, F_prev, F, dF, iter_i, f_loop, err>>
  /\ UNCHANGED <<env, entry, args, heap, last, out, ret, iters, dFs, qxPass, exitPath>>

\* the end of one pass of the loop of lines 202 / 336
EndPass ==
  /\ pc = "update"
  /\ order = <<>>
  /\ f_loop' = f_loop + 1
  /\ pc' = IF f_loop' < 2 THEN "pass" ELSE "energy"
  /\ UNCHANGED <<env, entry, args, heap, last, Ns, prior, L, qx, F_prev, F, dF, iter_i,
                 order, X, out, ret, err, history>>

\* lines 230-252 and 366-387; on the break, lines 254 and 388
EndIteration ==
  /\ pc = "energy"
  /\ F' = FreeEnergy(L, qx, prior, Ns)
  /\ dF' = Abs(F_prev - F')
  /\ F_prev' = F'
  /\ iters' = iters + 1
  /\ dFs' = Append(dFs, dF')
  /\ IF Converged(dF', args.dF_tol)
     THEN /\ pc' = "return"
          /\ out' = Collection(qx)
          /\ exitPath' = "converged"
          /\ UNCHANGED iter_i
     ELSE /\ pc' = "while"
          /\ iter_i' = iter_i + 1
          /\ UNCHANGED <<out, exitPath>>
  /\ UNCHANGED <<env, entry, args, heap, last, Ns, prior, L, qx, f_loop, order, X, ret, err,
                 nUpdates, visited, qxPass>>

\* the solver's caller: update_posterior_states, lines 105-119, or the caller
\* of run_FPI_faster
Return ==
  /\ pc = "return"
  /\ IF entry = "update_posterior_states" /\ Raises(args.method)
     THEN Raise("NotImplementedError") /\ UNCHANGED ret
     ELSE /\ pc' = "done"
          /\ ret' = IF entry = "update_posterior_states" /\ ~args.return_numpy
                    THEN Categorical(out) ELSE out
          /\ DropLocals
          /\ UNCHANGED err
  /\ UNCHANGED <<env, entry, args, heap, last, out, history>>

\* the caller goes on; with keep it keeps what the call returned
Finish(keep) ==
  /\ pc \in {"done", "raised"}
  /\ pc' = "idle"
  /\ last' = IF keep THEN [ret |-> ret, err |-> err, exitPath |-> exitPath] ELSE last
  /\ entry' = "none" /\ args' = NoCall /\ heap' = NoCall
  /\ out' = NoValue /\ ret' = NoValue /\ err' = ""
  /\ NewHistory
  /\ UNCHANGED <<locals, env>>

Next ==
  \/ \E c \in Calls : UpdatePosteriorStates(c)
  \/ \E c \in FasterCalls : RunFPIFaster(c)
  \/ TrivialCase
  \/ EnterLoop
  \/ WhileTest
  \/ PassStart
  \/ UpdateFactor
  \/ EndPass
  \/ EndIteration
  \/ Return
  \/ Finish(FALSE)

Spec == Init /\ [][Next]_vars

NextPair ==
  \/ \E c \in PairCalls : UpdatePosteriorStates(c)
  \/ \E c \in PairCalls : RunFPIFaster(c)
  \/ TrivialCase
  \/ EnterLoop
  \/ WhileTest
  \/ PassStart
  \/ UpdateFactor
  \/ EndPass
  \/ EndIteration
  \/ Return
  \/ Finish(TRUE)

SpecPair == Init /\ [][NextPair]_vars

(***************************************************************************)
(* SocialInteraction.reset and SocialInteraction.step                      *)
(***************************************************************************)
MaxSteps == 2

\* the arguments callers pass to step: the first and last index of the axis,
\* counted from the front and from the end, and the first index past either
\* end; the four actions and one that is none of them
Edges(n) == {0 - (n + 1), 0 - n, 0 - 1, 0, n - 1, n}
UserIds == Edges(num_users)
PostIds == Edges(num_posts)
ActionArgs == {actions[k] : k \in 1 .. Len(actions)} \cup {"BLOCK"}

\* line 44: action in self.actions
NotValidated(action) == TRUE
IsValidAction(action) == \E k \in 1 .. Len(actions) : actions[k] = action

\* the if / elif chain of lines 48-59: whether a branch is taken, what it adds
\* to the state entry, and the reward it binds
Matched(action) == action \in {"FOLLOW", "LIKE", "COMMENT", "SHARE"}
Increment(action) ==
  CASE action = "FOLLOW" -> Scale
    [] action = "LIKE" -> Scale
    [] action = "COMMENT" -> 2 * Scale
    [] action = "SHARE" -> 3 * Scale
Reward(action) ==
  CASE action = "FOLLOW" -> Scale
    [] action = "LIKE" -> Scale \div 2
    [] action = "COMMENT" -> (3 * Scale) \div 2
    [] action = "SHARE" -> 2 * Scale

\* lines 31-40
Reset ==
  /\ user_states' = zeros(num_users)
  /\ post_states' = zeros(num_posts)
  /\ rewards' = zeros2(num_users, num_posts)
  /\ env_call' = [op |-> "reset"]
  /\ env_ret' = None /\ env_err' = "" /\ env_steps' = 0
  /\ UNCHANGED solver

EnvRaise(e) == env_err' = e /\ env_ret' = NoValue

\* lines 42-65
Step(user_id, post_id, action) ==
  LET u == ArrayIndex(user_id, num_users)
      p == ArrayIndex(post_id, num_posts)
      follows == action = "FOLLOW"
      \* lines 49, 52, 55, 58: the entry the branch adds to
      target == IF follows THEN u ELSE p
      us == IF follows THEN [user_states EXCEPT ![u] = @ + Increment(action)]
            ELSE user_states
      ps == IF follows THEN post_states
            ELSE [post_states EXCEPT ![p] = @ + Increment(action)]
  IN  /\ env_steps < MaxSteps
      /\ env_steps' = env_steps + 1
      /\ env_call' = [op |-> "step", user_id |-> user_id, post_id |-> post_id,
                      action |-> action]
      /\ CASE ~IsValidAction(action) ->               \* line 45
                 /\ EnvRaise("ValueError")
                 /\ UNCHANGED <<user_states, post_states, rewards>>
            [] IsValidAction(action) /\ Matched(action) /\ target = OutOfBounds ->
                 /\ EnvRaise("IndexError")
                 /\ UNCHANGED <<user_states, post_states, rewards>>
            [] IsValidAction(action) /\ Matched(action) /\ target # OutOfBounds
               /\ (u = OutOfBounds \/ p = OutOfBounds) ->
                 \* line 62 raises after the branch has written
                 /\ EnvRaise("IndexError")
                 /\ user_states' = us /\ post_states' = ps
                 /\ UNCHANGED rewards
            [] IsValidAction(action) /\ ~Matched(action) ->
                 \* no branch taken: line 62 reads the entry, then reward, unbound
                 /\ EnvRaise(IF u = OutOfBounds \/ p = OutOfBounds
                             THEN "IndexError" ELSE "UnboundLocalError")
                 /\ UNCHANGED <<user_states, post_states, rewards>>
            [] OTHER ->
                 /\ user_states' = us /\ post_states' = ps
                 /\ rewards' = [rewards EXCEPT ![<<u, p>>] = @ + Reward(action)]
                 /\ env_err' = ""
                 /\ env_ret' = [user_states |-> us, post_states |-> ps,
                                reward |-> Reward(action)]
      /\ UNCHANGED solver

NextEnv ==
  \/ Reset
  \/ \E user_id \in UserIds, post_id \in PostIds, action \in ActionArgs :
        Step(user_id, post_id, action)

SpecEnv == Init /\ [][NextEnv]_vars

(***************************************************************************)
(* Properties                                                              *)
(***************************************************************************)
Active == pc \notin {"idle"}
InSolver == pc \in {"entered", "while", "pass", "update", "energy", "return"}
InLoop == pc \in {"while", "pass", "update", "energy"}
ViaDispatcher == entry = "update_posterior_states"

ClosedForm == softmax(VecAdd([j \in Range0(Ns[0]) |-> L[With(<<>>, 0, j)]],
                             prior.items[0].data))

\* C2: with one hidden-state factor both solvers make exactly one posterior
\* update, softmax(L + prior[0]), and return a single vector without entering
\* the iteration loop, whatever num_iter and dF_tol are.
C2_SingleFactorOneStep ==
  (InSolver /\ Nf = 1)
  => /\ ~InLoop
     /\ iters = 0
     /\ pc = "entered" => nUpdates = 0
     /\ pc = "return" => /\ nUpdates = 1
                         /\ exitPath = "trivial"
                         /\ out = Vector(ClosedForm)
                         /\ out.dtype = "float" /\ out.shape = <<Ns[0]>>

C2_Witness ==
  /\ pc = "return" /\ Nf = 1 /\ nUpdates = 1
  /\ entry = "run_FPI_faster" /\ args.num_iter = 0 /\ args.dF_tol = 0

\* an upper bound of the steps the solver has left
StepsLeft ==
  LET per  == 2 * Nf + 6
      n    == args.num_iter
      base == (n - iter_i - 1) * per + 3
  IN  CASE pc = "entered" -> n * per + 5
        [] pc = "while"   -> (n - iter_i) * per + 3
        [] pc = "pass"    -> base + 1 + (2 - f_loop) * (Nf + 2)
        [] pc = "update"  -> base + 2 + (1 - f_loop) * (Nf + 2) + Len(order)
        [] pc = "energy"  -> base + 1
        [] pc = "return"  -> 1
        [] OTHER          -> 0

\* the iteration count and the values held, for several factors
IterationCount ==
  (InSolver /\ Nf > 1)
  => /\ iters <= args.num_iter /\ iter_i <= args.num_iter
     /\ Len(dFs) = iters
     /\ \A k \in 1 .. (iters - 1) : ~(dFs[k] < args.dF_tol)
     /\ (iters > 0 /\ pc \in {"while", "return"})
          => /\ F = FreeEnergy(L, qx, prior, Ns)
             /\ F_prev = F
             /\ dF = dFs[iters]
     /\ pc = "while" => (iters = iter_i /\ (iters > 0 => ~(dFs[iters] < args.dF_tol)))
     /\ pc = "return"
          => /\ out = Collection(qx)
             /\ \/ /\ exitPath = "converged"
                   /\ iters >= 1 /\ dFs[iters] < args.dF_tol
                \/ /\ exitPath = "exhausted"
                   /\ iters = args.num_iter
                   /\ \A k \in 1 .. iters : ~(dFs[k] < args.dF_tol)

C4_NoSideEffects ==
  (ViaDispatcher /\ pc \in {"done", "raised"})
  => /\ heap.A = args.A
     /\ heap.observation = args.observation
     /\ heap.prior = args.prior

\* the number of vectors of the prior as passed
PriorCount(p) == IF p.values.dtype = "object" THEN Len0(p.values.items) ELSE 1
PriorLength(p, f) ==
  IF p.values.dtype = "object" THEN Len0(p.values.items[f].data) ELSE Len0(p.values.data)

\* a caller error: a factor of cardinality zero, or a prior whose number of
\* vectors or whose vector lengths disagree with the Ns inferred from A
CallerError ==
  LET A == IF ViaDispatcher THEN Unwrap(args.A) ELSE args.A
      Ns_ == InferNs(A)
      p == IF ViaDispatcher THEN args.prior ELSE Array(args.prior)
  IN  \/ \E f \in DOMAIN Ns_ : Ns_[f] = 0
      \/ PriorCount(p) # Len0(Ns_)
      \/ \E f \in DOMAIN Ns_ : f < PriorCount(p) /\ PriorLength(p, f) # Ns_[f]

\* C5: a caller error is rejected before the first posterior update: no update
\* is made, and no posterior is returned.
C5_CallerErrorsRejectedEarly ==
  (Active /\ CallerError) => (nUpdates = 0 /\ pc \notin {"return", "done"})

\* C6: two calls that left the solver on different paths (tolerance met, cap
\* reached) do not hand the caller the same value.
C6_ExitPathsDistinguishable ==
  (/\ pc = "done" /\ last # NoCall
   /\ exitPath \in {"converged", "exhausted"}
   /\ last.exitPath \in {"converged", "exhausted"}
   /\ ret = last.ret)
  => exitPath = last.exitPath

FullOrder(n) == Ascending(0, n) \o Descending(n)
IsPrefix(s, t) == Len(s) <= Len(t) /\ \A k \in 1 .. Len(s) : s[k] = t[k]
Count(s, f) == Cardinality({k \in 1 .. Len(s) : s[k] = f})

\* C7: in each full iteration, in both strategies, the factors are updated in
\* the order 0..Nf-1, Nf-1..0, each exactly twice, and F is computed only once
\* both passes are complete.
C7_TwoPassesThenFreeEnergy ==
  (InSolver /\ Nf > 1)
  => /\ pc \in {"pass", "update", "energy"}
          => /\ IsPrefix(visited, FullOrder(Nf))
             /\ nUpdates = 2 * Nf * iters + Len(visited)
     /\ pc = "pass" => Len(visited) = f_loop * Nf
     /\ pc = "energy" => /\ visited = FullOrder(Nf)
                         /\ \A f \in Range0(Nf) : Count(visited, f) = 2
     /\ pc \in {"while", "return"} => nUpdates = 2 * Nf * iters
     /\ Len(dFs) = iters

C7_Witness ==
  /\ pc = "energy" /\ Nf = 3 /\ visited = <<0, 1, 2, 2, 1, 0>>
  /\ entry = "run_FPI_faster" /\ iters = 1

Perms(n) == {s \in [1 .. n -> Range0(n)] : \A a, b \in 1 .. n : s[a] = s[b] => a = b}

RECURSIVE PassUpdates(_, _, _)
\* the beliefs after the joint-then-divide updates of the factors of visit, in
\* that order, from the working tensor X_ and the beliefs qx_
PassUpdates(X_, qx_, visit) ==
  IF visit = <<>> THEN qx_
  ELSE LET f == Head(visit)
           q == softmax(VecAdd(JointMarginal(X_, qx_[f], f, Ns), prior.items[f].data))
       IN  PassUpdates(XAfterUpdate(X_, qx_[f], f), [qx_ EXCEPT ![f] = q], Tail(visit))

\* C8: in run_FPI_faster, during a pass X stays the tensor built from L and
\* the beliefs at the start of the pass, L stays the joint log-likelihood, the
\* factors not yet visited keep their beliefs, and the beliefs after the pass
\* are those any visiting order of the factors gives.
C8_PassOrderIndependent ==
  (pc = "update" /\ entry = "run_FPI_faster")
  => /\ X = JointX(L, qxPass, FactorOrder(f_loop, Nf))
     /\ L = JointLogLikelihood(args.A, args.observation, args.No, args.Ns)
     /\ \A k \in 1 .. Len(order) : qx[order[k]] = qxPass[order[k]]
     /\ order = <<>> => \A visit \in Perms(Nf) : PassUpdates(X, qxPass, visit) = qx

C8_Witness ==
  /\ pc = "update" /\ entry = "run_FPI_faster" /\ order = <<>>
  /\ Nf = 3 /\ f_loop = 1
  /\ \A f \in Range0(Nf) : qx[f] # qxPass[f]

\* C9: F_prev before the first iteration is the free energy of section 4.4 at
\* the uniform qx: the entropy and prior terms minus the expected log-likelihood.
C9_InitialFreeEnergyIsFormula ==
  (pc = "entered") => F_prev = FreeEnergy(L, UniformQx(Ns), prior, Ns)

\* C10: update_posterior_states hands back a value, qx or Categorical(qx) as
\* return_numpy says, only when method is "FPI"; any other method ends in an
\* error with nothing returned.
C10_OnlyFPIReturns ==
  ViaDispatcher
  => /\ pc = "done" => /\ args.method = "FPI"
                       /\ ret = IF args.return_numpy THEN out ELSE Categorical(out)
                       /\ out # NoValue
     /\ args.method # "FPI" => (pc = "raised" /\ err # "" /\ ret = NoValue)

C10_Witness ==
  /\ ViaDispatcher /\ pc = "raised"
  /\ args.method = "fpi" /\ err = "UnboundLocalError"

\* the entries of the array a that the step changed
Changed(a, b) == {k \in DOMAIN a : b[k] # a[k]}

\* C11: a step whose action is not one of FOLLOW, LIKE, COMMENT, SHARE raises
\* ValueError and leaves user_states, post_states and rewards as they were.  A
\* step with one of the four actions changes no entry but user_states[user_id]
\* (FOLLOW) or post_states[post_id] (LIKE, COMMENT, SHARE) and
\* rewards[user_id, post_id], and when it returns it has added 1 to the user's
\* entry or 1, 2, 3 to the post's, and the reward 1, 0.5, 1.5, 2 to the rewards
\* entry, and returns the two state arrays and the reward.
C11_StepFrame ==
  [][LET c == env_call'
     IN  c.op = "step"
         => LET u == ArrayIndex(c.user_id, num_users)
                p == ArrayIndex(c.post_id, num_posts)
                du == IF c.action = "FOLLOW" THEN Scale ELSE 0
                dp == CASE c.action = "LIKE" -> Scale
                        [] c.action = "COMMENT" -> 2 * Scale
                        [] c.action = "SHARE" -> 3 * Scale
                        [] OTHER -> 0
                r  == CASE c.action = "FOLLOW" -> Scale
                        [] c.action = "LIKE" -> Scale \div 2
                        [] c.action = "COMMENT" -> Scale + Scale \div 2
                        [] c.action = "SHARE" -> 2 * Scale
                        [] OTHER -> 0
            IN  /\ DOMAIN user_states' = DOMAIN user_states
                /\ DOMAIN post_states' = DOMAIN post_states
                /\ DOMAIN rewards' = DOMAIN rewards
                /\ UNCHANGED solver
                /\ c.action \notin {"FOLLOW", "LIKE", "COMMENT", "SHARE"}
                   => /\ env_err' = "ValueError"
                      /\ UNCHANGED <<user_states, post_states, rewards>>
                /\ c.action \in {"FOLLOW", "LIKE", "COMMENT", "SHARE"}
                   => /\ Changed(user_states, user_states')
                           \subseteq (IF c.action = "FOLLOW" THEN {u} ELSE {})
                      /\ Changed(post_states, post_states')
                           \subseteq (IF c.action = "FOLLOW" THEN {} ELSE {p})
                      /\ Changed(rewards, rewards') \subseteq {<<u, p>>}
                      /\ env_err' \in {"", "IndexError"}
                      /\ env_err' = "IndexError" <=> (u = OutOfBounds \/ p = OutOfBounds)
                      /\ env_err' = ""
                         => /\ user_states' = [user_states EXCEPT ![u] = @ + du]
                            /\ post_states' = [post_states EXCEPT ![p] = @ + dp]
                            /\ rewards' = [rewards EXCEPT ![<<u, p>>] = @ + r]
                            /\ env_ret' = [user_states |-> user_states',
                                           post_states |-> post_states',
                                           reward |-> r]]_vars

\* a COMMENT addressed by a negative user index has returned, after an earlier
\* step on the same user and post
C11_Witness ==
  /\ env_call.op = "step" /\ env_call.action = "COMMENT" /\ env_err = ""
  /\ env_call.user_id = 0 - 1 /\ env_call.post_id = 0
  /\ env_steps = MaxSteps
  /\ rewards[<<num_users - 1, 0>>] = 2 * Scale
  /\ post_states[0] = 3 * Scale
  /\ user_states = zeros(num_users)

====
